---- MODULE Spec2Model ----
(***************************************************************************)
(* Model of snorkel/slicing/utils.py: add_slice_labels, which writes the   *)
(* per-slice indicator and predictor labels into a dataloader's Y_dict,    *)
(* and convert_to_slice_tasks, which rewrites a base Task into indicator,  *)
(* predictor and master tasks over one shared (aliased) module pool.       *)
(*                                                                         *)
(* Python objects live in two heaps: heap_modules (nn.Module objects) and  *)
(* heap_pools (nn.ModuleDict objects).  A reference is an index into the   *)
(* heap, so that object identity (is) and aliasing are observable.         *)
(***************************************************************************)
EXTENDS Integers, Sequences, FiniteSets, TLC

VARIABLES
    base_task,                \* the caller's Task object
    arg_slice_names,          \* the caller's slice_names list
    arg_slice_labels,         \* the caller's csr_matrix: [shape, nz]
    heap_modules,             \* nn.Module objects, by reference
    heap_pools,               \* nn.ModuleDict objects, by reference
    Y_dict,                   \* dataloader.dataset.Y_dict
    Y_dict_at_entry,          \* Y_dict as it was when add_slice_labels was entered
    pc,                       \* position of the (single) thread of control
    i,                        \* loop position of the running call
    slice_names,              \* local slice_names of the running call
    slice_labels,             \* local dense slice_labels of add_slice_labels
    labels,                   \* local labels of add_slice_labels
    slice_tasks,              \* local of convert_to_slice_tasks
    slice_task_ops,           \* local of convert_to_slice_tasks
    head_module_op,           \* local of convert_to_slice_tasks
    held_head_module,         \* base_task.module_pool[head_module_op.module_name] as read
    head_module,              \* local, after the DataParallel unwrap
    neck_size,                \* local of convert_to_slice_tasks
    base_task_cardinality,    \* local of convert_to_slice_tasks
    body_flow,                \* local of convert_to_slice_tasks
    shared_pred_head_module,  \* local of convert_to_slice_tasks
    call_log,                 \* outcomes of the convert_to_slice_tasks calls, in order
    als_outcome               \* outcome of add_slice_labels

vars == << base_task, arg_slice_names, arg_slice_labels, heap_modules, heap_pools,
           Y_dict, Y_dict_at_entry, pc, i, slice_names, slice_labels, labels,
           slice_tasks, slice_task_ops, head_module_op, held_head_module,
           head_module, neck_size, base_task_cardinality, body_flow,
           shared_pred_head_module, call_log, als_outcome >>

cst_locals == << slice_tasks, slice_task_ops, head_module_op, held_head_module,
                 head_module, neck_size, base_task_cardinality, body_flow,
                 shared_pred_head_module >>

als_locals == << slice_labels, labels >>

call_args == << base_task, arg_slice_names, arg_slice_labels >>

-----------------------------------------------------------------------------
(* Bounds of the model *)

MaxSlices == 2
NumExamples == 2
MaxBody == 2
MaxCalls == 2

-----------------------------------------------------------------------------
(* Python values *)

None == 0

\* nn.Linear(in_features, out_features)
Linear(inf, outf) ==
    [kind |-> "Linear", in_features |-> inf, out_features |-> outf, module |-> None]

\* nn.DataParallel(module): the replication wrapper around module
DataParallel(m) ==
    [kind |-> "DataParallel", in_features |-> None, out_features |-> None, module |-> m]

SliceCombinerModule ==
    [kind |-> "SliceCombinerModule", in_features |-> None, out_features |-> None,
     module |-> None]

\* Operation(module_name, inputs): the operation is named after its module
Operation(module_name, inputs) ==
    [name |-> module_name, module_name |-> module_name, inputs |-> inputs]

Task(name, module_pool, task_flow, scorer) ==
    [name |-> name, module_pool |-> module_pool, task_flow |-> task_flow,
     scorer |-> scorer]

\* An input reference (operation-name, output-index); "_input_" is the external input
Ref(op_name, index) == << op_name, index >>

\* d[k] = v and del d[k] on a dict
DictSet(d, k, v) == [n \in DOMAIN d \cup {k} |-> IF n = k THEN v ELSE d[n]]

DictDel(d, k) == [n \in DOMAIN d \ {k} |-> d[n]]

EmptyDict == [n \in {} |-> None]

\* x in list
Contains(list, x) == \E k \in 1..Len(list) : list[k] = x

\* list[:-1]
AllButLast(list) == SubSeq(list, 1, Len(list) - 1)

\* list[-1]
Last(list) == list[Len(list)]

-----------------------------------------------------------------------------
(* The caller's arguments *)

BaseTaskName == "t"

\* Slice names of the task-graph runs, and of the label runs
SliceNameSet == {"a", "b", "base"}

LabelSliceNameSet == {"a", "base"}

BodyModuleName(k) == "body" \o ToString(k)

\* A backbone of b chained operations, the first reading the external input
BodyFlow(b) ==
    [k \in 1..b |->
        Operation(BodyModuleName(k),
                  << IF k = 1 THEN Ref("_input_", 0) ELSE Ref(BodyModuleName(k - 1), 0) >>)]

\* The head module's name: an ordinary one, and one that has the form of the
\* names convert_to_slice_tasks derives for its own modules
HeadModuleNames == {"head", BaseTaskName \o "_slice:base_ind_head"}

\* What the head operation may read: the external input, any body operation,
\* or (an invalid flow) the head operation itself
HeadInputs(b, head_name) ==
    { << Ref(x, 0) >> : x \in {"_input_", head_name} \cup {BodyModuleName(k) : k \in 1..b} }

\* Base task with b body operations; its pool is heap_pools[1], the body
\* modules are heap_modules[1..b], the head module heap_modules[b+1] and,
\* when wrapped, its DataParallel wrapper heap_modules[b+2]
InitBaseTask(b, head_name, head_inputs) ==
    Task(BaseTaskName, 1, BodyFlow(b) \o << Operation(head_name, head_inputs) >>,
         "base_scorer")

InitModules(b, wrapped) ==
    [k \in 1..b |-> Linear(8, 8)] \o << Linear(8, 3) >>
        \o (IF wrapped THEN << DataParallel(b + 1) >> ELSE << >>)

InitPool(b, head_name, wrapped) ==
    [n \in {BodyModuleName(k) : k \in 1..b} \cup {head_name} |->
        IF n = head_name
        THEN (IF wrapped THEN b + 2 ELSE b + 1)
        ELSE CHOOSE k \in 1..b : BodyModuleName(k) = n]

SliceNameLists == UNION { [1..n -> SliceNameSet] : n \in 0..MaxSlices }

LabelSliceNameLists == UNION { [1..n -> LabelSliceNameSet] : n \in 0..MaxSlices }

\* A csr_matrix of the given shape holding ones at the coordinates nz
CsrMatrix(rows, cols, nz) == [shape |-> << rows, cols >>, nz |-> nz]

AllOnes(rows, cols) == CsrMatrix(rows, cols, (1..rows) \X (1..cols))

\* Matrices with one column per name
MatchingMatrices(names) ==
    { CsrMatrix(NumExamples, Len(names), nz) :
        nz \in SUBSET ((1..NumExamples) \X (1..Len(names))) }

\* Matrices with one column too many or too few
MismatchedMatrices(names) ==
    { AllOnes(NumExamples, w) : w \in {Len(names) + 1, Len(names) - 1} \cap Nat }

LabelArrays == [1..NumExamples -> {1, 2}]

-----------------------------------------------------------------------------
(* convert_to_slice_tasks *)

\* Faulty variant: "base" put first instead of last
cst_add_base_prepend(names) ==
    IF Contains(names, "base") THEN names ELSE << "base" >> \o names

\* if "base" not in slice_names: slice_names = slice_names + ["base"]
cst_add_base(names) == IF Contains(names, "base") THEN names ELSE names \o << "base" >>

\* f"{base_task.name}_slice:{slice_name}_ind"
cst_ind_task_name(base_name, slice_name) == base_name \o "_slice:" \o slice_name \o "_ind"

\* f"{base_task.name}_slice:{slice_name}_pred"
cst_pred_task_name(base_name, slice_name) == base_name \o "_slice:" \o slice_name \o "_pred"

ind_head_module_name(ind_task_name) == ind_task_name \o "_head"

pred_head_module_name(pred_task_name) == pred_task_name \o "_head"

pred_transform_module_name(pred_task_name) == pred_task_name \o "_transform"

master_combiner_module_name(base_name) == base_name \o "_master_combiner"

master_head_module_name(base_name) == base_name \o "_master_head"

\* if isinstance(head_module, nn.DataParallel): head_module = head_module.module
Unwrap(modules, m) == IF modules[m].kind = "DataParallel" THEN modules[m].module ELSE m

\* ind_task_ops = [ind_head_op]
ind_task_ops(ind_task_name, head_op) ==
    << Operation(ind_head_module_name(ind_task_name), head_op.inputs) >>

\* Faulty variant: the predictor head placed before the transform it reads
pred_task_ops_head_first(pred_task_name, head_op) ==
    << Operation(pred_head_module_name(pred_task_name),
                 << Ref(pred_transform_module_name(pred_task_name), 0) >>),
       Operation(pred_transform_module_name(pred_task_name), head_op.inputs) >>

\* pred_task_ops = [pred_transform_op, pred_head_op]
pred_task_ops(pred_task_name, head_op) ==
    LET pred_transform_op ==
            Operation(pred_transform_module_name(pred_task_name), head_op.inputs)
        pred_head_op ==
            Operation(pred_head_module_name(pred_task_name),
                      << Ref(pred_transform_op.name, 0) >>)
    IN  << pred_transform_op, pred_head_op >>

\* ind_task_flow = body_flow + ind_task_ops
ind_task_flow(body, ops) == body \o ops

\* pred_task_flow = body_flow + pred_task_ops
pred_task_flow(body, ops) == body \o ops

\* Faulty variant: a head of its own for every slice
pred_head_entry_private(shared, transform) == transform

\* The module stored under pred_head_module_name: the one shared head
pred_head_entry(shared, transform) == shared

\* Faulty variant: the head kept in the form the base pool held it
master_head_module_held(unwrapped, held) == held

\* master_head_module = head_module (the unwrapped head)
master_head_module(unwrapped, held) == unwrapped

\* Faulty variant: the master flow built without the shared body
master_task_flow_without_body(body, ops, base_name) ==
    ops \o << Operation(master_combiner_module_name(base_name), << >>),
              Operation(master_head_module_name(base_name),
                        << Ref(master_combiner_module_name(base_name), 0) >>) >>

\* Faulty variant: the master head placed before the combiner it reads
master_task_flow_head_before_combiner(body, ops, base_name) ==
    body \o ops
         \o << Operation(master_head_module_name(base_name),
                         << Ref(master_combiner_module_name(base_name), 0) >>),
               Operation(master_combiner_module_name(base_name), << >>) >>

\* master_task_flow = body_flow + slice_task_ops + [master_combiner_op, master_head_op]
master_task_flow(body, ops, base_name) ==
    LET master_combiner_op == Operation(master_combiner_module_name(base_name), << >>)
        master_head_op ==
            Operation(master_head_module_name(base_name),
                      << Ref(master_combiner_op.name, 0) >>)
    IN  body \o ops \o << master_combiner_op, master_head_op >>

\* On entry: the head operation is the last of the flow
EntryHeadOp == Last(base_task.task_flow)

BasePool == heap_pools[base_task.module_pool]

\* Lines 94-115, when the head lookup succeeds: normalize the names, read the
\* head, unwrap it, read its dimensions, delete it from the (caller's) pool
CST_Enter ==
    /\ pc = "idle"
    /\ Len(call_log) < MaxCalls
    /\ EntryHeadOp.module_name \in DOMAIN BasePool
    /\ LET held == BasePool[EntryHeadOp.module_name]
           head == Unwrap(heap_modules, held)
       IN  /\ held_head_module' = held
           /\ head_module' = head
           /\ neck_size' = heap_modules[head].in_features
           /\ base_task_cardinality' = heap_modules[head].out_features
    /\ slice_names' = cst_add_base(arg_slice_names)
    /\ slice_tasks' = << >>
    /\ slice_task_ops' = << >>
    /\ head_module_op' = EntryHeadOp
    /\ heap_pools' = [heap_pools EXCEPT ![base_task.module_pool] =
                          DictDel(@, EntryHeadOp.module_name)]
    /\ body_flow' = AllButLast(base_task.task_flow)
    /\ i' = 1
    /\ pc' = "cst_ind"
    /\ UNCHANGED << call_args, heap_modules, Y_dict, Y_dict_at_entry, als_locals,
                    shared_pred_head_module, call_log, als_outcome >>

\* Line 105 raising KeyError: the pool holds nothing under the head's module name
CST_KeyError ==
    /\ pc = "idle"
    /\ Len(call_log) < MaxCalls
    /\ EntryHeadOp.module_name \notin DOMAIN BasePool
    /\ call_log' = Append(call_log, [outcome |-> "KeyError", value |-> << >>])
    /\ UNCHANGED << call_args, heap_modules, heap_pools, Y_dict, Y_dict_at_entry,
                    pc, i, slice_names, als_locals, cst_locals, als_outcome >>

\* Lines 118-147: one iteration of the indicator loop
CST_IndicatorTask ==
    /\ pc = "cst_ind"
    /\ i <= Len(slice_names)
    /\ LET ind_task_name == cst_ind_task_name(base_task.name, slice_names[i])
           ind_head_module == Len(heap_modules) + 1
           ind_module_pool == base_task.module_pool
           ops == ind_task_ops(ind_task_name, head_module_op)
           ind_task == Task(ind_task_name, ind_module_pool,
                            ind_task_flow(body_flow, ops), "f1")
       IN  /\ heap_modules' = Append(heap_modules, Linear(neck_size, 2))
           /\ heap_pools' = [heap_pools EXCEPT ![ind_module_pool] =
                   DictSet(@, ind_head_module_name(ind_task_name), ind_head_module)]
           /\ slice_task_ops' = slice_task_ops \o ops
           /\ slice_tasks' = Append(slice_tasks, ind_task)
    /\ i' = i + 1
    /\ UNCHANGED << call_args, Y_dict, Y_dict_at_entry, pc, slice_names, als_locals,
                    head_module_op, held_head_module, head_module, neck_size,
                    base_task_cardinality, body_flow, shared_pred_head_module,
                    call_log, als_outcome >>

\* Line 150: the one predictor head, created after the indicator loop
CST_SharedPredHead ==
    /\ pc = "cst_ind"
    /\ i > Len(slice_names)
    /\ heap_modules' = Append(heap_modules, Linear(neck_size, base_task_cardinality))
    /\ shared_pred_head_module' = Len(heap_modules) + 1
    /\ i' = 1
    /\ pc' = "cst_pred"
    /\ UNCHANGED << call_args, heap_pools, Y_dict, Y_dict_at_entry, slice_names,
                    als_locals, slice_tasks, slice_task_ops, head_module_op,
                    held_head_module, head_module, neck_size, base_task_cardinality,
                    body_flow, call_log, als_outcome >>

\* Lines 151-185: one iteration of the predictor loop
CST_PredictorTask ==
    /\ pc = "cst_pred"
    /\ i <= Len(slice_names)
    /\ LET pred_task_name == cst_pred_task_name(base_task.name, slice_names[i])
           pred_transform_module == Len(heap_modules) + 1
           pred_module_pool == base_task.module_pool
           ops == pred_task_ops(pred_task_name, head_module_op)
           pred_task == Task(pred_task_name, pred_module_pool,
                             pred_task_flow(body_flow, ops), base_task.scorer)
       IN  /\ heap_modules' = Append(heap_modules, Linear(neck_size, neck_size))
           /\ heap_pools' = [heap_pools EXCEPT ![pred_module_pool] =
                   DictSet(DictSet(@, pred_transform_module_name(pred_task_name),
                                   pred_transform_module),
                           pred_head_module_name(pred_task_name),
                           pred_head_entry(shared_pred_head_module,
                                           pred_transform_module))]
           /\ slice_task_ops' = slice_task_ops \o ops
           /\ slice_tasks' = Append(slice_tasks, pred_task)
    /\ i' = i + 1
    /\ UNCHANGED << call_args, Y_dict, Y_dict_at_entry, pc, slice_names, als_locals,
                    head_module_op, held_head_module, head_module, neck_size,
                    base_task_cardinality, body_flow, shared_pred_head_module,
                    call_log, als_outcome >>

\* Lines 187-218: the master task, its own new pool, and the return
CST_MasterTask ==
    /\ pc = "cst_pred"
    /\ i > Len(slice_names)
    /\ LET master_combiner_module == Len(heap_modules) + 1
           master_module_pool == Len(heap_pools) + 1
           pool == DictSet(DictSet(EmptyDict,
                                   master_combiner_module_name(base_task.name),
                                   master_combiner_module),
                           master_head_module_name(base_task.name),
                           master_head_module(head_module, held_head_module))
           master_task == Task(base_task.name, master_module_pool,
                               master_task_flow(body_flow, slice_task_ops,
                                                base_task.name),
                               base_task.scorer)
       IN  /\ heap_modules' = Append(heap_modules, SliceCombinerModule)
           /\ heap_pools' = Append(heap_pools, pool)
           /\ call_log' = Append(call_log, [outcome |-> "returned",
                                            value |-> slice_tasks \o << master_task >>])
    /\ pc' = "idle"
    /\ UNCHANGED << call_args, Y_dict, Y_dict_at_entry, i, slice_names, als_locals,
                    cst_locals, als_outcome >>

-----------------------------------------------------------------------------
(* add_slice_labels *)

\* csr_matrix.toarray(): the dense [num_examples x num_slices] array
toarray(csr) ==
    [shape |-> csr.shape,
     a |-> [r \in 1..csr.shape[1] |->
               [c \in 1..csr.shape[2] |-> IF << r, c >> \in csr.nz THEN 1 ELSE 0]]]

\* np.hstack([slice_labels, np.ones((num_points, 1))])
hstack_ones(arr) ==
    [shape |-> << arr.shape[1], arr.shape[2] + 1 >>,
     a |-> [r \in 1..arr.shape[1] |-> Append(arr.a[r], 1)]]

\* _add_base_slice(slice_labels, slice_names)
add_base_slice(arr, names) ==
    IF Contains(names, "base")
    THEN << arr, names >>
    ELSE << hstack_ones(arr), names \o << "base" >> >>

\* Faulty variant: the assertion left out
shape_assert_off(arr, names) == TRUE

\* assert slice_labels.shape[1] == len(slice_names)
shape_assert(arr, names) == arr.shape[2] = Len(names)

\* slice_labels[:, i]
Column(arr, c) == [r \in 1..arr.shape[1] |-> arr.a[r][c]]

\* convert_labels(indicators, source="onezero", target="categorical")
convert_labels(indicators) ==
    [r \in 1..Len(indicators) |-> IF indicators[r] = 0 THEN 2 ELSE indicators[r]]

\* Faulty variant: the base labels, not masked by the membership
pred_labels_unmasked(indicators, base_labels) == base_labels

\* pred_labels = indicators * labels
pred_labels(indicators, base_labels) ==
    [r \in 1..Len(indicators) |-> indicators[r] * base_labels[r]]

\* Faulty variant: another separator than convert_to_slice_tasks uses
als_ind_task_name_underscore(base_name, slice_name) ==
    base_name \o "_slice_" \o slice_name \o "_ind"

\* f"{base_task.name}_slice:{slice_name}_ind"
als_ind_task_name(base_name, slice_name) == base_name \o "_slice:" \o slice_name \o "_ind"

\* f"{base_task.name}_slice:{slice_name}_pred"
als_pred_task_name(base_name, slice_name) == base_name \o "_slice:" \o slice_name \o "_pred"

Normalized == add_base_slice(toarray(arg_slice_labels), arg_slice_names)

\* Lines 37-42, when the assertion holds
ALS_Enter ==
    /\ pc = "idle"
    /\ als_outcome = "none"
    /\ shape_assert(Normalized[1], Normalized[2])
    /\ base_task.name \in DOMAIN Y_dict
    /\ slice_labels' = Normalized[1]
    /\ slice_names' = Normalized[2]
    /\ labels' = Y_dict[base_task.name]
    /\ Y_dict_at_entry' = Y_dict
    /\ i' = 1
    /\ pc' = "als_loop"
    /\ als_outcome' = "running"
    /\ UNCHANGED << call_args, heap_modules, heap_pools, Y_dict, cst_locals, call_log >>

\* Line 39 raising AssertionError
ALS_AssertionError ==
    /\ pc = "idle"
    /\ als_outcome = "none"
    /\ ~shape_assert(Normalized[1], Normalized[2])
    /\ Y_dict_at_entry' = Y_dict
    /\ als_outcome' = "AssertionError"
    /\ UNCHANGED << call_args, heap_modules, heap_pools, Y_dict, pc, i, slice_names,
                    als_locals, cst_locals, call_log >>

\* Lines 43-55: one iteration of the loop over the names; reading a column
\* the array does not have raises IndexError
ALS_Iteration ==
    /\ pc = "als_loop"
    /\ i <= Len(slice_names)
    /\ IF i > slice_labels.shape[2]
       THEN /\ als_outcome' = "IndexError"
            /\ pc' = "idle"
            /\ UNCHANGED << Y_dict, i >>
       ELSE LET indicators == Column(slice_labels, i)
                ind_labels == convert_labels(indicators)
            IN  /\ Y_dict' =
                     DictSet(DictSet(Y_dict,
                                     als_ind_task_name(base_task.name, slice_names[i]),
                                     ind_labels),
                             als_pred_task_name(base_task.name, slice_names[i]),
                             pred_labels(indicators, labels))
                /\ i' = i + 1
                /\ UNCHANGED << pc, als_outcome >>
    /\ UNCHANGED << call_args, heap_modules, heap_pools, Y_dict_at_entry, slice_names,
                    als_locals, cst_locals, call_log >>

\* The loop is exhausted: the call returns None
ALS_Return ==
    /\ pc = "als_loop"
    /\ i > Len(slice_names)
    /\ als_outcome' = "returned"
    /\ pc' = "idle"
    /\ UNCHANGED << call_args, heap_modules, heap_pools, Y_dict, Y_dict_at_entry, i,
                    slice_names, als_locals, cst_locals, call_log >>

-----------------------------------------------------------------------------
(* Specifications *)

InitWith(b, head_name, head_inputs, wrapped, names, matrix, base_labels) ==
    /\ base_task = InitBaseTask(b, head_name, head_inputs)
    /\ arg_slice_names = names
    /\ arg_slice_labels = matrix
    /\ heap_modules = InitModules(b, wrapped)
    /\ heap_pools = << InitPool(b, head_name, wrapped) >>
    /\ Y_dict = [n \in {BaseTaskName, "other_task"} |-> base_labels]
    /\ Y_dict_at_entry = Y_dict
    /\ pc = "idle"
    /\ i = 1
    /\ slice_names = << >>
    /\ slice_labels = toarray(CsrMatrix(0, 0, {}))
    /\ labels = << >>
    /\ slice_tasks = << >>
    /\ slice_task_ops = << >>
    /\ head_module_op = Operation("", << >>)
    /\ held_head_module = None
    /\ head_module = None
    /\ neck_size = None
    /\ base_task_cardinality = None
    /\ body_flow = << >>
    /\ shared_pred_head_module = None
    /\ call_log = << >>
    /\ als_outcome = "none"

\* Every shape of base task, with an all-ones matrix (of the right or the wrong width)
InitTasks ==
    \E b \in 0..MaxBody, head_name \in HeadModuleNames, wrapped \in BOOLEAN,
       names \in SliceNameLists :
        \E head_inputs \in HeadInputs(b, head_name),
           matrix \in {AllOnes(NumExamples, Len(names))} \cup MismatchedMatrices(names) :
            InitWith(b, head_name, head_inputs, wrapped, names, matrix,
                     [e \in 1..NumExamples |-> 1])

\* Every membership matrix and label array, with one plain base task
InitLabels ==
    \E names \in LabelSliceNameLists, base_labels \in LabelArrays :
        \E matrix \in MatchingMatrices(names) \cup MismatchedMatrices(names) :
            InitWith(1, "head", << Ref(BodyModuleName(1), 0) >>, FALSE, names, matrix,
                     base_labels)

Init == InitTasks \/ InitLabels

Next ==
    \/ CST_Enter
    \/ CST_KeyError
    \/ CST_IndicatorTask
    \/ CST_SharedPredHead
    \/ CST_PredictorTask
    \/ CST_MasterTask
    \/ ALS_Enter
    \/ ALS_AssertionError
    \/ ALS_Iteration
    \/ ALS_Return

Spec == Init /\ [][Next]_vars

SpecTasks == InitTasks /\ [][Next]_vars

SpecLabels == InitLabels /\ [][Next]_vars

-----------------------------------------------------------------------------
(* Vocabulary of the properties *)

\* The slice names with "base" appended last when it was absent
NormalizedNames ==
    IF \E k \in 1..Len(arg_slice_names) : arg_slice_names[k] = "base"
    THEN arg_slice_names
    ELSE Append(arg_slice_names, "base")

NumSlices == Len(NormalizedNames)

IndName(s) == BaseTaskName \o "_slice:" \o s \o "_ind"

PredName(s) == BaseTaskName \o "_slice:" \o s \o "_pred"

\* The latest convert_to_slice_tasks call has returned its task list
Returned == pc = "idle" /\ call_log # << >> /\ Last(call_log).outcome = "returned"

result == Last(call_log).value

IndTask(k) == result[k]

PredTask(k) == result[NumSlices + k]

MasterTask == result[2 * NumSlices + 1]

FlowLen == Len(base_task.task_flow)

\* Every (operation-name, index) reference names an operation placed strictly earlier
ValidFlow(flow) ==
    \A k \in 1..Len(flow) :
        \A r \in 1..Len(flow[k].inputs) :
            \/ flow[k].inputs[r][1] = "_input_"
            \/ \E j \in 1..(k - 1) : flow[j].name = flow[k].inputs[r][1]

-----------------------------------------------------------------------------
\* C1: a returning convert_to_slice_tasks call yields exactly 2N+1 tasks, N the
\* number of slice names plus one when "base" was absent: the N indicator tasks
\* {base}_slice:{s}_ind, then the N predictor tasks {base}_slice:{s}_pred, both
\* in the order of the normalized names ("base" last when added), then the one
\* master task named as the base task.
C1_ResultShape ==
    Returned =>
        /\ NumSlices = Len(arg_slice_names)
                         + (IF Contains(arg_slice_names, "base") THEN 0 ELSE 1)
        /\ Len(result) = 2 * NumSlices + 1
        /\ \A k \in 1..NumSlices : IndTask(k).name = IndName(NormalizedNames[k])
        /\ \A k \in 1..NumSlices : PredTask(k).name = PredName(NormalizedNames[k])
        /\ MasterTask.name = base_task.name

C1_Witness ==
    /\ Returned
    /\ Len(arg_slice_names) >= 2
    /\ ~Contains(arg_slice_names, "base")
    /\ arg_slice_names[1] # arg_slice_names[2]

-----------------------------------------------------------------------------
\* C2 as claimed: indicator flows have length (L-1)+1, predictor flows (L-1)+2,
\* and the master flow has length (L-1) + 2N + 2.
C2_FlowLengthsAsClaimed ==
    Returned =>
        /\ \A k \in 1..NumSlices : Len(IndTask(k).task_flow) = (FlowLen - 1) + 1
        /\ \A k \in 1..NumSlices : Len(PredTask(k).task_flow) = (FlowLen - 1) + 2
        /\ Len(MasterTask.task_flow) = (FlowLen - 1) + 2 * NumSlices + 2

\* C2 amended: indicator flows have length (L-1)+1, predictor flows (L-1)+2,
\* and the master flow has length (L-1) + 3N + 2 (one indicator operation and
\* two predictor operations per slice, plus combiner and head).
C2_FlowLengths ==
    Returned =>
        /\ \A k \in 1..NumSlices : Len(IndTask(k).task_flow) = (FlowLen - 1) + 1
        /\ \A k \in 1..NumSlices : Len(PredTask(k).task_flow) = (FlowLen - 1) + 2
        /\ Len(MasterTask.task_flow) = (FlowLen - 1) + 3 * NumSlices + 2

C2_Witness == Returned /\ FlowLen >= 2 /\ NumSlices >= 2

-----------------------------------------------------------------------------
(* Vocabulary of the label properties *)

\* add_slice_labels has returned
LabelsDone == pc = "idle" /\ als_outcome = "returned"

\* membership of example e in column k of the normalized matrix: the caller's
\* column, or the all-ones column added for "base"
Membership(e, k) ==
    IF k <= arg_slice_labels.shape[2]
    THEN (IF << e, k >> \in arg_slice_labels.nz THEN 1 ELSE 0)
    ELSE 1

BaseLabels == Y_dict[BaseTaskName]

Examples == 1..arg_slice_labels.shape[1]

\* No later column carries the name of column k
LastOfItsName(k) ==
    \A j \in (k + 1)..NumSlices : NormalizedNames[j] # NormalizedNames[k]

\* The number of columns differs from the number of names (before as after
\* the base-slice normalization, which adds one of each or none)
ShapeMismatch == arg_slice_labels.shape[2] # Len(arg_slice_names)

-----------------------------------------------------------------------------
\* C3 as claimed: after add_slice_labels, for every example e and every column
\* s of the normalized list the label under {base}_slice:{s}_pred is 0 when
\* membership(e,s) = 0 and the base label when membership(e,s) = 1, and the
\* "base" predictor labels equal the base labels.
C3_PredLabelsAsClaimed ==
    LabelsDone =>
        /\ \A k \in 1..NumSlices : \A e \in Examples :
              Y_dict[PredName(NormalizedNames[k])][e] =
                  (IF Membership(e, k) = 0 THEN 0 ELSE BaseLabels[e])
        /\ \A e \in Examples : Y_dict[PredName("base")][e] = BaseLabels[e]

\* C3 amended: after add_slice_labels, for every example e and every column s
\* of the normalized list that is the last one of its name (every column, when
\* the names are distinct), the label under {base}_slice:{s}_pred is 0 when
\* membership(e,s) = 0 and the base label when membership(e,s) = 1; the "base"
\* predictor labels equal the base labels when "base" was absent from the
\* caller's names (the all-ones column was added).
C3_PredLabels ==
    LabelsDone =>
        /\ \A k \in 1..NumSlices : \A e \in Examples :
              LastOfItsName(k) =>
                  Y_dict[PredName(NormalizedNames[k])][e] =
                      (IF Membership(e, k) = 0 THEN 0 ELSE BaseLabels[e])
        /\ ~Contains(arg_slice_names, "base") =>
              \A e \in Examples : Y_dict[PredName("base")][e] = BaseLabels[e]

C3_Witness ==
    /\ LabelsDone
    /\ ~Contains(arg_slice_names, "base")
    /\ Len(arg_slice_names) >= 1
    /\ \E e \in Examples : Membership(e, 1) = 0 /\ Y_dict[PredName(arg_slice_names[1])][e] = 0
    /\ \E e \in Examples : Membership(e, 1) = 1 /\ Y_dict[PredName(arg_slice_names[1])][e] = 2

-----------------------------------------------------------------------------
\* C7: when the number of matrix columns differs from the number of slice
\* names, add_slice_labels never enters its loop and never returns normally:
\* it ends in the failed assertion, and Y_dict holds exactly the keys and
\* values it held on entry.
C7_MismatchFailsBeforeWriting ==
    ShapeMismatch =>
        /\ pc # "als_loop"
        /\ als_outcome \in {"none", "AssertionError"}
        /\ Y_dict = Y_dict_at_entry
        /\ DOMAIN Y_dict = {BaseTaskName, "other_task"}

C7_Witness ==
    /\ als_outcome = "AssertionError"
    /\ arg_slice_labels.shape[2] > Len(arg_slice_names)
    /\ Y_dict = Y_dict_at_entry

-----------------------------------------------------------------------------
(* Vocabulary of the module-pool properties *)

PoolOf(task) == heap_pools[task.module_pool]

\* The module a task's last operation resolves to in the task's own pool
HeadModuleOf(task) == PoolOf(task)[Last(task.task_flow).module_name]

\* The modules the predictor tasks hold under {pred_task}_head
PredHeads == { PoolOf(PredTask(k))[PredTask(k).name \o "_head"] : k \in 1..NumSlices }

\* The modules the predictor tasks hold under {pred_task}_transform
PredTransforms ==
    { PoolOf(PredTask(k))[PredTask(k).name \o "_transform"] : k \in 1..NumSlices }

CombinerKey == BaseTaskName \o "_master_combiner"

MasterHeadKey == BaseTaskName \o "_master_head"

\* The head module as the base task's pool held it, without its wrapper if any
HeldUnwrapped ==
    IF heap_modules[held_head_module].kind = "DataParallel"
    THEN heap_modules[held_head_module].module
    ELSE held_head_module

-----------------------------------------------------------------------------
\* C4: in the result of one call there is exactly one predictor head module:
\* every predictor task's pool holds the identical object under
\* {pred_task}_head, every predictor task's head operation resolves to it, and
\* it is a module made by this call (neither the base head nor a per-slice
\* transform).
C4_SharedPredHead ==
    Returned =>
        /\ PredHeads = {shared_pred_head_module}
        /\ \A j, k \in 1..NumSlices :
              PoolOf(PredTask(j))[PredTask(j).name \o "_head"]
                  = PoolOf(PredTask(k))[PredTask(k).name \o "_head"]
        /\ \A k \in 1..NumSlices : HeadModuleOf(PredTask(k)) = shared_pred_head_module
        /\ shared_pred_head_module \notin PredTransforms \cup {head_module, held_head_module}
        /\ heap_modules[shared_pred_head_module] = Linear(neck_size, base_task_cardinality)

C4_Witness ==
    /\ Returned
    /\ NumSlices >= 3
    /\ Cardinality({ PredTask(k).name : k \in 1..NumSlices }) = NumSlices
    /\ Cardinality(PredTransforms) = NumSlices

-----------------------------------------------------------------------------
\* C5 as claimed: the master task's pool has exactly two entries, the combiner
\* and the head, and the head entry is the object the base task's pool held
\* under the head operation's module name, in the form it had there (wrapped
\* if it was wrapped).
C5_MasterPoolAsClaimed ==
    Returned =>
        /\ DOMAIN PoolOf(MasterTask) = {CombinerKey, MasterHeadKey}
        /\ heap_modules[PoolOf(MasterTask)[CombinerKey]].kind = "SliceCombinerModule"
        /\ PoolOf(MasterTask)[MasterHeadKey] = held_head_module

\* C5 amended: the master task's pool is a pool of its own with exactly two
\* entries, the combiner and the head, none of them a module of the shared
\* pool of the indicator and predictor tasks; the head entry is the original
\* head module itself, not a copy, with its replication wrapper removed: the
\* object the base pool held when it was unwrapped, the wrapper's inner module
\* when it was wrapped.
C5_MasterPool ==
    Returned =>
        /\ MasterTask.module_pool # base_task.module_pool
        /\ DOMAIN PoolOf(MasterTask) = {CombinerKey, MasterHeadKey}
        /\ heap_modules[PoolOf(MasterTask)[CombinerKey]].kind = "SliceCombinerModule"
        /\ PoolOf(MasterTask)[MasterHeadKey] = HeldUnwrapped
        /\ heap_modules[PoolOf(MasterTask)[MasterHeadKey]].kind # "DataParallel"
        /\ \A n \in DOMAIN BasePool :
              BasePool[n] \notin { PoolOf(MasterTask)[m] : m \in DOMAIN PoolOf(MasterTask) }

C5_Witness ==
    /\ Returned
    /\ heap_modules[held_head_module].kind = "DataParallel"
    /\ PoolOf(MasterTask)[MasterHeadKey] = heap_modules[held_head_module].module
    /\ FlowLen >= 2

-----------------------------------------------------------------------------
\* C6: after one returning call, a second call on the same base task object
\* with the same slice names does not return a different result: it fails
\* with an error, or returns what the first call returned.
C6_SecondCallFailsOrNoOp ==
    (Len(call_log) >= 2 /\ call_log[1].outcome = "returned") =>
        \/ call_log[2].outcome # "returned"
        \/ call_log[2].value = call_log[1].value

-----------------------------------------------------------------------------
(* Vocabulary of the flow properties *)

MasterFlow == MasterTask.task_flow

BaseHeadOp == Last(base_task.task_flow)

\* Positions in the master flow: body 1..B, indicators B+1..B+N, predictors
\* B+N+1..B+3N, combiner B+3N+1, head B+3N+2
BodyLen == FlowLen - 1

IndPos(k) == BodyLen + k

TransformPos(k) == BodyLen + NumSlices + 2 * k - 1

PredHeadPos(k) == BodyLen + NumSlices + 2 * k

CombinerPos == BodyLen + 3 * NumSlices + 1

MasterHeadPos == BodyLen + 3 * NumSlices + 2

IsIndicatorOp(op) == \E k \in 1..NumSlices : op.module_name = IndName(NormalizedNames[k]) \o "_head"

IsPredictorOp(op) ==
    \E k \in 1..NumSlices :
        op.module_name \in {PredName(NormalizedNames[k]) \o "_transform",
                            PredName(NormalizedNames[k]) \o "_head"}

-----------------------------------------------------------------------------
\* C8: the master flow is the base flow without its last operation, then the
\* N indicator head operations in slice order, then for each slice in order
\* its transform operation immediately followed by its head operation, then
\* the combiner operation with no inputs, then the master head operation whose
\* only input is output 0 of the combiner; no indicator operation comes after
\* a predictor operation.
C8_MasterFlow ==
    Returned =>
        /\ Len(MasterFlow) = MasterHeadPos
        /\ \A k \in 1..BodyLen : MasterFlow[k] = base_task.task_flow[k]
        /\ \A k \in 1..NumSlices :
              /\ MasterFlow[IndPos(k)] = Last(IndTask(k).task_flow)
              /\ MasterFlow[IndPos(k)].module_name = IndName(NormalizedNames[k]) \o "_head"
              /\ MasterFlow[TransformPos(k)].module_name
                     = PredName(NormalizedNames[k]) \o "_transform"
              /\ MasterFlow[PredHeadPos(k)].module_name
                     = PredName(NormalizedNames[k]) \o "_head"
              /\ MasterFlow[PredHeadPos(k)] = Last(PredTask(k).task_flow)
        /\ MasterFlow[CombinerPos].module_name = CombinerKey
        /\ MasterFlow[CombinerPos].inputs = << >>
        /\ MasterFlow[MasterHeadPos].module_name = MasterHeadKey
        /\ MasterFlow[MasterHeadPos].inputs = << << MasterFlow[CombinerPos].name, 0 >> >>
        /\ \A p, q \in (BodyLen + 1)..Len(MasterFlow) :
              (IsPredictorOp(MasterFlow[p]) /\ IsIndicatorOp(MasterFlow[q])) => q < p

C8_Witness ==
    /\ Returned
    /\ BodyLen >= 1
    /\ NumSlices >= 2
    /\ IsIndicatorOp(MasterFlow[IndPos(NumSlices)])
    /\ IsPredictorOp(MasterFlow[TransformPos(1)])

-----------------------------------------------------------------------------
\* C9: when the base flow is a valid topological order, so is the flow of
\* every returned task: each indicator head and each predictor transform
\* carries exactly the original head operation's input references, each
\* predictor head's single input is output 0 of its own slice's transform, and
\* the master head's single input is output 0 of the combiner.
C9_TopologicalOrder ==
    (Returned /\ ValidFlow(base_task.task_flow)) =>
        /\ \A t \in 1..Len(result) : ValidFlow(result[t].task_flow)
        /\ \A k \in 1..NumSlices :
              /\ Last(IndTask(k).task_flow).inputs = BaseHeadOp.inputs
              /\ PredTask(k).task_flow[FlowLen].inputs = BaseHeadOp.inputs
              /\ PredTask(k).task_flow[FlowLen].module_name
                     = PredName(NormalizedNames[k]) \o "_transform"
              /\ Last(PredTask(k).task_flow).inputs
                     = << << PredTask(k).task_flow[FlowLen].name, 0 >> >>
        /\ Last(MasterFlow).inputs = << << MasterFlow[CombinerPos].name, 0 >> >>

C9_Witness ==
    /\ Returned
    /\ ValidFlow(base_task.task_flow)
    /\ BodyLen >= 2
    /\ BaseHeadOp.inputs[1][1] = base_task.task_flow[1].name
    /\ NumSlices >= 2

-----------------------------------------------------------------------------
(* Vocabulary of the label-key property *)

\* Some convert_to_slice_tasks call returned; its task list
SomeReturned == \E c \in 1..Len(call_log) : call_log[c].outcome = "returned"

FirstReturned == call_log[CHOOSE c \in 1..Len(call_log) : call_log[c].outcome = "returned"].value

\* C10: once both functions have run on the same base task and slice names,
\* the keys add_slice_labels added to Y_dict are exactly the names of the
\* returned indicator and predictor tasks, the base task's own entry is as it
\* was, and every returned task (the master under the base task's name) has a
\* label entry under its name.
C10_LabelKeysMatchTasks ==
    (LabelsDone /\ SomeReturned) =>
        /\ DOMAIN Y_dict \ DOMAIN Y_dict_at_entry
               = { FirstReturned[k].name : k \in 1..(Len(FirstReturned) - 1) }
        /\ Y_dict[base_task.name] = Y_dict_at_entry[base_task.name]
        /\ \A k \in 1..Len(FirstReturned) : FirstReturned[k].name \in DOMAIN Y_dict
        /\ FirstReturned[Len(FirstReturned)].name = base_task.name

C10_Witness ==
    /\ LabelsDone
    /\ SomeReturned
    /\ ~Contains(arg_slice_names, "base")
    /\ Len(arg_slice_names) >= 1
    /\ Cardinality(DOMAIN Y_dict \ DOMAIN Y_dict_at_entry) = 2 * (Len(arg_slice_names) + 1)

====
